---- MODULE Spec2Model ----
(***************************************************************************)
(* Model of rustdoc-cli (src/src/main.rs): main reads a Rust source file,  *)
(* parses it, walks the syntax tree collecting one Doc per fn / mod item,  *)
(* and prints every Doc; each Doc's raw doc string is rendered by          *)
(* format_markdown, an event loop over the Markdown token stream.          *)
(*                                                                         *)
(* Strings are sequences of one-character strings.  The three ANSI escape  *)
(* sequences that can reach the output are single atoms.                   *)
(***************************************************************************)
EXTENDS Integers, Sequences, FiniteSets, TLC

VARIABLES
    pc,        \* position of main: open, read, parse, visit, render, markdown, done, error, panicked
    fatal,     \* why the run ended abnormally ("none" while it has not)
    ast,       \* the parsed file (syn::File), NoAst before parsing
    docs,      \* visitor.docs : Vec<Doc>
    idx,       \* position of the `for doc in visitor.docs` iterator (1-based, next item)
    stdout,    \* everything print! has written
    out,       \* format_markdown: let mut out
    code,      \* format_markdown: let mut code
    is_code,   \* format_markdown: let mut is_code
    open,      \* the Markdown parser: the tag it is inside of ("none" at block level)
    consumed,  \* history: the events the `for event in parser` loop has taken for this item
    returned,  \* history: per item printed so far, the token stream format_markdown
               \* took and the string it returned ([stream, out])
    attrs,     \* format_doc: its argument
    doc        \* format_doc: its result ([panicked, doc]), NoDoc before the call

vars == <<pc, fatal, ast, docs, idx, stdout, out, code, is_code, open, consumed,
          returned, attrs, doc>>

-----------------------------------------------------------------------------
(* Bounds *)

MaxAttrs == 2      \* attributes on one declaration (format_doc specification)
MaxNodes == 3      \* declarations in a file (tree walker specification)
MaxItems == 2      \* declarations in a file (whole-run specification)
MaxEvents == 4     \* Start / Text / other events taken in one run
MaxLevel == 2      \* heading levels 1..MaxLevel
MaxIdent == 75     \* characters of an identifier (heading specification)

-----------------------------------------------------------------------------
(* Strings *)

NL == "\n"
QUOTE == "\""
ESC_BG == "ESC[48;2;r;g;bm"     \* as_24_bit_terminal_escaped, background colour
ESC_FG == "ESC[38;2;r;g;bm"     \* as_24_bit_terminal_escaped, foreground colour
RESET == "ESC[0m"               \* "\x1b[0m"

BlankLine == <<NL, NL>>

RECURSIVE Repeat(_, _)
Repeat(c, n) == IF n <= 0 THEN <<>> ELSE <<c>> \o Repeat(c, n - 1)

RECURSIVE Count(_, _)
Count(s, c) ==
    IF s = <<>> THEN 0
    ELSE (IF Head(s) = c THEN 1 ELSE 0) + Count(Tail(s), c)

RECURSIVE Flatten(_)
Flatten(ss) == IF ss = <<>> THEN <<>> ELSE Head(ss) \o Flatten(Tail(ss))

Last(s) == s[Len(s)]

IsSuffix(suf, s) ==
    /\ Len(suf) <= Len(s)
    /\ SubSeq(s, Len(s) - Len(suf) + 1, Len(s)) = suf

-----------------------------------------------------------------------------
(* format_doc (main.rs 140-168) *)

\* String::remove(idx): the string without its idx-th character (1-based here).
StringRemove(s, i) == SubSeq(s, 1, i - 1) \o SubSeq(s, i + 1, Len(s))

\* LiteralLine without `if !lit.is_empty()`.
LiteralLineUnguarded(lit) ==
    IF Len(lit) < 2 THEN [panicked |-> TRUE, line |-> <<>>]
    ELSE LET l2 == SubSeq(lit, 3, Len(lit)) IN
         IF l2 = <<>> THEN [panicked |-> TRUE, line |-> <<>>]
         ELSE [panicked |-> FALSE, line |-> SubSeq(l2, 1, Len(l2) - 1) \o <<NL>>]

\* The body of the TokenTree::Literal arm: [panicked, line].
\* String::remove panics when the index is not inside the string.
LiteralLine(lit) ==
    IF Len(lit) < 1 THEN [panicked |-> TRUE, line |-> <<>>]
    ELSE LET l1 == StringRemove(lit, 1) IN
         IF Len(l1) < 1 THEN [panicked |-> TRUE, line |-> <<>>]
         ELSE LET l2 == StringRemove(l1, 1)
                  l3 == IF l2 # <<>> THEN StringRemove(l2, Len(l2)) ELSE l2
              IN  [panicked |-> FALSE, line |-> l3 \o <<NL>>]

\* for token in attr.tokens: only Literal tokens write to doc.
RECURSIVE FormatDocTokens(_, _)
FormatDocTokens(acc, tokens) ==
    IF acc.panicked \/ tokens = <<>> THEN acc
    ELSE LET token == Head(tokens) IN
         IF token.kind = "Literal"
         THEN LET r == LiteralLine(token.text) IN
              IF r.panicked
              THEN [panicked |-> TRUE, doc |-> acc.doc]
              ELSE FormatDocTokens([panicked |-> FALSE, doc |-> acc.doc \o r.line],
                                   Tail(tokens))
         ELSE FormatDocTokens(acc, Tail(tokens))

\* for attr in attrs: only AttrStyle::Outer attributes are looked at.
RECURSIVE FormatDocAttrs(_, _)
FormatDocAttrs(acc, as) ==
    IF acc.panicked \/ as = <<>> THEN acc
    ELSE LET attr == Head(as) IN
         IF attr.style = "Outer"
         THEN FormatDocAttrs(FormatDocTokens(acc, attr.tokens), Tail(as))
         ELSE FormatDocAttrs(acc, Tail(as))

FormatDoc(as) == FormatDocAttrs([panicked |-> FALSE, doc |-> <<>>], as)

\* format_signature without the parentheses.
FormatSignatureBare(ident) == <<"f", "n", " ">> \o ident \o <<NL, NL>>

\* format_signature (main.rs 136-138)
FormatSignature(ident) == <<"f", "n", " ">> \o ident \o <<"(", ")", NL, NL>>

-----------------------------------------------------------------------------
(* Attributes as syn presents them: style, path and the token trees after  *)
(* the path.  `/// A` is #[doc = " A"]: tokens `=` and the literal `" A"`. *)

Punct(c) == [kind |-> "Punct", text |-> <<c>>]
Literal(s) == [kind |-> "Literal", text |-> s]
Group(s) == [kind |-> "Group", text |-> s]

DocAttr(style, text) ==
    [style |-> style, path |-> "doc",
     tokens |-> <<Punct("="), Literal(<<QUOTE>> \o text \o <<QUOTE>>)>>]

AttrDocA == DocAttr("Outer", <<" ", "A">>)           \* /// A
AttrDocNoSpace == DocAttr("Outer", <<"B", "C">>)      \* ///BC
AttrDocEmpty == DocAttr("Outer", <<>>)                \* ///
AttrInnerDoc == DocAttr("Inner", <<" ", "I">>)        \* //! I
AttrAllow ==                                          \* #[allow(dead_code)]
    [style |-> "Outer", path |-> "allow", tokens |-> <<Group(<<"d">>)>>]
AttrPath ==                                           \* #[path = "x.rs"]
    [style |-> "Outer", path |-> "path",
     tokens |-> <<Punct("="), Literal(<<QUOTE, "x", ".", "r", "s", QUOTE>>)>>]
AttrFoo1 ==                                           \* #[foo = 1]
    [style |-> "Outer", path |-> "foo", tokens |-> <<Punct("="), Literal(<<"1">>)>>]

Attrs == {AttrDocA, AttrDocNoSpace, AttrDocEmpty, AttrInnerDoc, AttrAllow,
          AttrPath, AttrFoo1}

SeqsUpTo(S, n) == UNION {[1..k -> S] : k \in 0..n}


NoDoc == [panicked |-> FALSE, doc |-> <<"?">>]
NoAst == [n |-> 0, parent |-> <<>>, kind |-> <<>>, attrs |-> <<>>, ident |-> <<>>]

-----------------------------------------------------------------------------
(* The parsed file.  A syn::File is a tree of items; node i has a kind     *)
(* ("fn", "mod", or "other": an item that is neither, such as an impl      *)
(* block or a const, whose body may still hold items), its attributes, and *)
(* its parent (0: the file).  The items of one body are in source order:   *)
(* by ascending node number.                                               *)

Kinds == {"fn", "mod", "other"}

\* The identifier of node i: distinct per node.
Ident(i) == <<"n", ToString(i)>>

RECURSIVE ReachesFile(_, _, _)
ReachesFile(parent, i, fuel) ==
    IF i = 0 THEN TRUE
    ELSE IF fuel = 0 THEN FALSE
    ELSE ReachesFile(parent, parent[i], fuel - 1)

IsTree(n, parent) == \A i \in 1..n : ReachesFile(parent, i, n)

\* Vec<Item> of a body: the children of p, in source order.
Items(t, p) ==
    LET S == {i \in 1..t.n : t.parent[i] = p} IN
    [k \in 1..Cardinality(S) |-> CHOOSE i \in S : Cardinality({j \in S : j < i}) = k - 1]

\* The attribute lists a declaration of the walker's inputs carries.
NodeAttrLists == {<<AttrDocA>>, <<AttrFoo1>>}

\* The file of n declarations with these parents, kinds and attributes,
\* declaration i named Ident(i).
Tree(n, parent, kind, nodeAttrs) ==
    [n |-> n, parent |-> parent, kind |-> kind, attrs |-> nodeAttrs,
     ident |-> [i \in 1..n |-> Ident(i)]]

-----------------------------------------------------------------------------
(* impl Visit for Visitor (main.rs 170-188).  The visitor is               *)
(* [docs, panicked]; a panic in format_doc unwinds the whole traversal.    *)

FnDoc(signature, d) == [variant |-> "FnDoc", label |-> signature, doc |-> d]
ModDoc(ident, d) == [variant |-> "ModDoc", label |-> ident, doc |-> d]

RECURSIVE VisitItem(_, _, _)
RECURSIVE VisitItems(_, _, _)

\* visit_item_fn delegating before it pushes.
VisitItemFnLate(t, v, i) ==
    LET d == FormatDoc(t.attrs[i])
        w == VisitItems(t, v, Items(t, i))
    IN  IF d.panicked \/ w.panicked THEN [docs |-> w.docs, panicked |-> TRUE]
        ELSE [docs |-> Append(w.docs, FnDoc(FormatSignature(t.ident[i]), d.doc)),
              panicked |-> FALSE]

\* visit_item_fn: push, then delegate to visit::visit_item_fn (nested items).
VisitItemFn(t, v, i) ==
    LET d == FormatDoc(t.attrs[i]) IN
    IF d.panicked THEN [docs |-> v.docs, panicked |-> TRUE]
    ELSE VisitItems(t,
                    [docs |-> Append(v.docs, FnDoc(FormatSignature(t.ident[i]), d.doc)),
                     panicked |-> FALSE],
                    Items(t, i))

\* visit_item_mod: push, then delegate to visit::visit_item_mod (the module's items).
VisitItemMod(t, v, i) ==
    LET d == FormatDoc(t.attrs[i]) IN
    IF d.panicked THEN [docs |-> v.docs, panicked |-> TRUE]
    ELSE VisitItems(t,
                    [docs |-> Append(v.docs, ModDoc(t.ident[i], d.doc)),
                     panicked |-> FALSE],
                    Items(t, i))

\* Visit::visit_item, the default dispatch on the item's kind.
VisitItem(t, v, i) ==
    IF v.panicked THEN v
    ELSE CASE t.kind[i] = "fn" -> VisitItemFn(t, v, i)
           [] t.kind[i] = "mod" -> VisitItemMod(t, v, i)
           [] OTHER -> VisitItems(t, v, Items(t, i))

VisitItems(t, v, items) ==
    IF v.panicked \/ items = <<>> THEN v
    ELSE VisitItems(t, VisitItem(t, v, Head(items)), Tail(items))

\* visitor.visit_file(&ast) on Visitor { docs: Vec::new() }
VisitFile(t) == VisitItems(t, [docs |-> <<>>, panicked |-> FALSE], Items(t, 0))

-----------------------------------------------------------------------------
(* The Markdown token stream (pulldown_cmark::Event) *)

Ev(kind, tag, level, text) == [kind |-> kind, tag |-> tag, level |-> level, text |-> text]

StartEv(tag, level) == Ev("Start", tag, level, <<>>)
EndEv(tag) == Ev("End", tag, 0, <<>>)
TextEv(text) == Ev("Text", "", 0, text)
OtherEv(kind) == Ev(kind, "", 0, <<>>)

\* The tags format_markdown has an arm for, and some of those it has none for.
BlockTags == {"List"}
InlineTags == {"Emphasis"}
\* The Event variants other than Start, End and Text.
InlineKinds == {"Code", "Html", "FootnoteReference", "SoftBreak", "HardBreak",
                "TaskListMarker"}
BlockKinds == {"Rule", "Html"}

\* The contents of Text events: prose, and the lines of a code block.
ProseTexts == {<<"a">>}
CodeTexts == {<<"x", NL>>}

-----------------------------------------------------------------------------
(* format_markdown (main.rs 37-98).  m is [out, code, is_code].            *)

\* syntect::util::LinesWithEndings: the lines of s, each with its ending.
RECURSIVE LinesWithEndings(_)
LinesWithEndings(s) ==
    IF s = <<>> THEN <<>>
    ELSE LET nl == {i \in 1..Len(s) : s[i] = NL} IN
         IF nl = {} THEN <<s>>
         ELSE LET i == CHOOSE j \in nl : \A k \in nl : j <= k IN
              <<SubSeq(s, 1, i)>> \o LinesWithEndings(SubSeq(s, i + 1, Len(s)))

\* h.highlight(line) then as_24_bit_terminal_escaped(ranges, true): every
\* range is written as its background escape, its foreground escape and its
\* text; a line is taken as one range.
Escaped(line) == <<ESC_BG, ESC_FG>> \o line

RECURSIVE HighlightLines(_)
HighlightLines(lines) ==
    IF lines = <<>> THEN <<>>
    ELSE Escaped(Head(lines)) \o HighlightLines(Tail(lines))

\* StartHeading with one '#' too few.
StartHeadingShort(m, level) ==
    [m EXCEPT !.out = @ \o BlankLine \o Repeat("#", level - 1) \o <<" ">>]

\* Event::Start(tag), the arms that do not panic
StartCodeBlock(m) == [m EXCEPT !.is_code = TRUE]
StartParagraph(m) == m
StartHeading(m, level) ==
    [m EXCEPT !.out = @ \o BlankLine \o Repeat("#", level) \o <<" ">>]

\* EndCodeBlock writing the reset before the highlighted lines.
EndCodeBlockResetFirst(m) ==
    [out |-> m.out \o <<RESET>> \o HighlightLines(LinesWithEndings(m.code)) \o BlankLine,
     code |-> <<>>,
     is_code |-> FALSE]

\* EndCodeBlock without code.clear().
EndCodeBlockKeepsCode(m) ==
    [out |-> m.out \o HighlightLines(LinesWithEndings(m.code)) \o <<RESET>> \o BlankLine,
     code |-> m.code,
     is_code |-> FALSE]

\* EndCodeBlock leaving is_code set.
EndCodeBlockKeepsFlag(m) ==
    [out |-> m.out \o HighlightLines(LinesWithEndings(m.code)) \o <<RESET>> \o BlankLine,
     code |-> <<>>,
     is_code |-> m.is_code]

\* Event::End(tag), the arms that do not panic
EndCodeBlock(m) ==
    [out |-> m.out \o HighlightLines(LinesWithEndings(m.code)) \o <<RESET>> \o BlankLine,
     code |-> <<>>,
     is_code |-> FALSE]
EndHeading(m) == [m EXCEPT !.out = @ \o BlankLine]
EndParagraph(m) == [m EXCEPT !.code = @ \o BlankLine]

\* OnText that buffers every text as code.
OnTextAlwaysCode(m, text) == [m EXCEPT !.code = @ \o text]

\* Event::Text(text)
OnText(m, text) ==
    IF m.is_code THEN [m EXCEPT !.code = @ \o text]
    ELSE [m EXCEPT !.out = @ \o text]

\* IsTodo with the two line breaks let through.
IsTodoButBreaks(ev) ==
    IF ev.kind \in {"Start", "End"}
    THEN ev.tag \notin {"CodeBlock", "Paragraph", "Heading"}
    ELSE ev.kind \notin {"Text", "SoftBreak", "HardBreak"}

\* The arms that are todo!(): every Event variant but Start, End and Text,
\* and Start or End of any tag but CodeBlock, Paragraph and Heading.
IsTodo(ev) ==
    IF ev.kind \in {"Start", "End"}
    THEN ev.tag \notin {"CodeBlock", "Paragraph", "Heading"}
    ELSE ev.kind # "Text"

\* One turn of `match event` for an event that does not panic.
OnEvent(m, ev) ==
    CASE ev.kind = "Start" /\ ev.tag = "CodeBlock" -> StartCodeBlock(m)
      [] ev.kind = "Start" /\ ev.tag = "Paragraph" -> StartParagraph(m)
      [] ev.kind = "Start" /\ ev.tag = "Heading" -> StartHeading(m, ev.level)
      [] ev.kind = "End" /\ ev.tag = "CodeBlock" -> EndCodeBlock(m)
      [] ev.kind = "End" /\ ev.tag = "Heading" -> EndHeading(m)
      [] ev.kind = "End" /\ ev.tag = "Paragraph" -> EndParagraph(m)
      [] ev.kind = "Text" -> OnText(m, ev.text)
      [] OTHER -> m

-----------------------------------------------------------------------------
(* impl Display for FnDoc / ModDoc (main.rs 106-131) *)

Width == 80

\* Center padding on the right only ({:-<1$}).
CenterLeftAligned(label, width) == label \o Repeat("-", width - Len(label))

\* format!("{:-^1$}", label, width)
Center(label, width) ==
    LET pad == width - Len(label) IN
    IF pad <= 0 THEN label
    ELSE Repeat("-", pad \div 2) \o label \o Repeat("-", (pad + 1) \div 2)

FnDocFmt(d, md) ==
    Center(<<"f", "u", "n", "c", "t", "i", "o", "n">>, Width)
        \o BlankLine \o d.label \o md \o BlankLine

ModDocFmt(d, md) ==
    Center(<<"m", "o", "d", "u", "l", "e", " ">> \o d.label, Width)
        \o BlankLine \o md \o BlankLine

\* impl Display for Doc (main.rs 27-34); md is what format_markdown returned.
DocFmt(d, md) == IF d.variant = "FnDoc" THEN FnDocFmt(d, md) ELSE ModDocFmt(d, md)

-----------------------------------------------------------------------------
(* The run of main (main.rs 234-254) *)

\* The files of the whole-run specification: n top-level declarations,
\* alternately a mod and a fn (nesting and the other mixes are the walker
\* specification's), each with the doc comment `/// A` or with none; and one
\* file whose only declaration carries #[foo = 1].
MainTrees ==
    UNION {{Tree(n,
                 [i \in 1..n |-> 0],
                 [i \in 1..n |-> IF i % 2 = 1 THEN "mod" ELSE "fn"],
                 a) : a \in [1..n -> {<<>>, <<AttrDocA>>}]} : n \in 0..MaxItems}
      \cup {Tree(1, <<0>>, <<"fn">>, <<(<<AttrFoo1>>)>>)}

\* Parser::new_ext(input, Options::empty()) yields no event at all exactly
\* for an input of blank lines (and every paragraph it yields holds something).
Blank(input) == \A i \in 1..Len(input) : input[i] \in {" ", NL}

\* The events of a stream that are not End events.
NotEnds(stream) == SelectSeq(stream, LAMBDA ev : ev.kind # "End")

RECURSIVE SumLen(_)
SumLen(rs) ==
    IF rs = <<>> THEN 0 ELSE Len(NotEnds(Head(rs).stream)) + SumLen(Tail(rs))

\* The number of Start, Text and other events the run has taken so far
\* (an End event is always let through, so that every tag can close).
Taken == SumLen(returned) + Len(NotEnds(consumed))

Init ==
    /\ pc = "open"
    /\ fatal = "none"
    /\ ast = NoAst
    /\ docs = <<>>
    /\ idx = 1
    /\ stdout = <<>>
    /\ out = <<>>
    /\ code = <<>>
    /\ is_code = FALSE
    /\ open = "none"
    /\ consumed = <<>>
    /\ returned = <<>>
    /\ attrs = <<>>
    /\ doc = NoDoc

Md == [out |-> out, code |-> code, is_code |-> is_code]

Fail(to, why) ==
    /\ pc' = to
    /\ fatal' = why

\* std::env::args().skip(1).next().expect(..), then fs::File::open(..)?
OpenFile ==
    /\ pc = "open"
    /\ \E r \in {"no argument", "cannot open", "opened"} :
         CASE r = "no argument" -> Fail("panicked", "no filename provided")
           [] r = "cannot open" -> Fail("error", "io")
           [] OTHER -> pc' = "read" /\ fatal' = fatal
    /\ UNCHANGED <<ast, docs, idx, stdout, out, code, is_code, open, consumed,
                   returned, attrs, doc>>

\* file.read_to_string(&mut content)?
ReadFile ==
    /\ pc = "read"
    /\ \E ok \in BOOLEAN :
         IF ok THEN pc' = "parse" /\ fatal' = fatal ELSE Fail("error", "io")
    /\ UNCHANGED <<ast, docs, idx, stdout, out, code, is_code, open, consumed,
                   returned, attrs, doc>>

\* syn::parse_file(&content)?
ParseFile ==
    /\ pc = "parse"
    /\ \/ /\ Fail("error", "parse")
          /\ ast' = ast
       \/ /\ \E t \in MainTrees : ast' = t
          /\ pc' = "visit"
          /\ fatal' = fatal
    /\ UNCHANGED <<docs, idx, stdout, out, code, is_code, open, consumed,
                   returned, attrs, doc>>

\* let mut visitor = Visitor { docs: Vec::new() }; visitor.visit_file(&ast);
Visit ==
    /\ pc = "visit"
    /\ LET v == VisitFile(ast) IN
         /\ docs' = v.docs
         /\ IF v.panicked THEN Fail("panicked", "format_doc")
            ELSE pc' = "render" /\ fatal' = fatal
    /\ idx' = 1
    /\ UNCHANGED <<ast, stdout, out, code, is_code, open, consumed, returned,
                   attrs, doc>>

\* BeginFormatMarkdown with the heading line written before format_markdown runs.
BeginFormatMarkdownHeadingFirst ==
    /\ pc = "render"
    /\ idx <= Len(docs)
    /\ pc' = "markdown"
    /\ stdout' = stdout \o Center(<<>>, Width)
    /\ out' = <<>>
    /\ code' = <<>>
    /\ is_code' = FALSE
    /\ open' = "none"
    /\ consumed' = <<>>
    /\ UNCHANGED <<fatal, ast, docs, idx, returned, attrs, doc>>

\* BeginFormatMarkdown with a code buffer that outlives the call.
BeginFormatMarkdownKeepsCode ==
    /\ pc = "render"
    /\ idx <= Len(docs)
    /\ pc' = "markdown"
    /\ out' = <<>>
    /\ is_code' = FALSE
    /\ open' = "none"
    /\ consumed' = <<>>
    /\ UNCHANGED <<fatal, ast, docs, idx, stdout, code, returned, attrs, doc>>

\* for doc in visitor.docs { print!("{}", doc) }: the next item's Display::fmt
\* calls format_markdown(&self.doc) before it writes anything.
BeginFormatMarkdown ==
    /\ pc = "render"
    /\ idx <= Len(docs)
    /\ pc' = "markdown"
    /\ out' = <<>>
    /\ code' = <<>>
    /\ is_code' = FALSE
    /\ open' = "none"
    /\ consumed' = <<>>
    /\ UNCHANGED <<fatal, ast, docs, idx, stdout, returned, attrs, doc>>

\* The events the parser can yield next, given the tag it is inside of.
NextEvents ==
    CASE Blank(docs[idx].doc) -> {}
      [] open = "none" ->
           {StartEv("Paragraph", 0), StartEv("CodeBlock", 0)}
             \cup {StartEv("Heading", l) : l \in 1..MaxLevel}
             \cup {StartEv(t, 0) : t \in BlockTags}
             \cup {OtherEv(k) : k \in BlockKinds}
      [] open = "CodeBlock" ->
           {TextEv(t) : t \in CodeTexts} \cup {EndEv("CodeBlock")}
      [] OTHER ->
           {TextEv(t) : t \in ProseTexts}
             \cup {StartEv(t, 0) : t \in InlineTags}
             \cup {OtherEv(k) : k \in InlineKinds}
             \cup (IF Last(consumed) = StartEv("Paragraph", 0) THEN {} ELSE {EndEv(open)})

\* One turn of `for event in parser { match event { .. } }`.
Take(ev) ==
    /\ pc = "markdown"
    /\ ev \in NextEvents
    /\ ev.kind = "End" \/ Taken < MaxEvents
    /\ consumed' = Append(consumed, ev)
    /\ open' = CASE ev.kind = "Start" -> ev.tag
                 [] ev.kind = "End" -> "none"
                 [] OTHER -> open
    /\ IF IsTodo(ev)
       THEN /\ Fail("panicked", "todo")
            /\ UNCHANGED <<out, code, is_code>>
       ELSE /\ LET m == OnEvent(Md, ev) IN
                 /\ out' = m.out
                 /\ code' = m.code
                 /\ is_code' = m.is_code
            /\ UNCHANGED <<pc, fatal>>
    /\ UNCHANGED <<ast, docs, idx, stdout, returned, attrs, doc>>

EventStart ==
    /\ pc = "markdown"
    /\ \E ev \in NextEvents : ev.kind = "Start" /\ Take(ev)

EventEnd ==
    /\ pc = "markdown"
    /\ \E ev \in NextEvents : ev.kind = "End" /\ Take(ev)

EventText ==
    /\ pc = "markdown"
    /\ \E ev \in NextEvents : ev.kind = "Text" /\ Take(ev)

EventOther ==
    /\ pc = "markdown"
    /\ \E ev \in NextEvents : ev.kind \notin {"Start", "End", "Text"} /\ Take(ev)

\* The parser is exhausted: format_markdown returns out, Display::fmt writes
\* the item's block and print! sends it to standard output.
Return ==
    /\ pc = "markdown"
    /\ open = "none"
    /\ consumed = <<>> <=> Blank(docs[idx].doc)
    /\ returned' = Append(returned, [stream |-> consumed, out |-> out])
    /\ stdout' = stdout \o DocFmt(docs[idx], out)
    /\ idx' = idx + 1
    /\ pc' = "render"
    /\ UNCHANGED <<fatal, ast, docs, out, code, is_code, open, consumed, attrs, doc>>

\* Ok(())
Exit ==
    /\ pc = "render"
    /\ idx > Len(docs)
    /\ pc' = "done"
    /\ UNCHANGED <<fatal, ast, docs, idx, stdout, out, code, is_code, open,
                   consumed, returned, attrs, doc>>

Next ==
    \/ OpenFile
    \/ ReadFile
    \/ ParseFile
    \/ Visit
    \/ BeginFormatMarkdown
    \/ EventStart
    \/ EventEnd
    \/ EventText
    \/ EventOther
    \/ Return
    \/ Exit

Spec == Init /\ [][Next]_vars

-----------------------------------------------------------------------------
(* The tree walker on its own: every file of up to MaxNodes declarations.  *)

InitWalk ==
    /\ pc = "visit"
    /\ fatal = "none"
    /\ \E n \in 0..MaxNodes :
         \E p \in [1..n -> 0..n], k \in [1..n -> Kinds], a \in [1..n -> NodeAttrLists] :
            /\ IsTree(n, p)
            /\ ast = Tree(n, p, k, a)
    /\ docs = <<>>
    /\ idx = 1
    /\ stdout = <<>>
    /\ out = <<>>
    /\ code = <<>>
    /\ is_code = FALSE
    /\ open = "none"
    /\ consumed = <<>>
    /\ returned = <<>>
    /\ attrs = <<>>
    /\ doc = NoDoc

SpecWalk == InitWalk /\ [][Visit]_vars

-----------------------------------------------------------------------------
(* format_doc on its own: every attribute list of up to MaxAttrs entries.  *)

InitDoc ==
    /\ pc = "format_doc"
    /\ fatal = "none"
    /\ ast = NoAst
    /\ docs = <<>>
    /\ idx = 1
    /\ stdout = <<>>
    /\ out = <<>>
    /\ code = <<>>
    /\ is_code = FALSE
    /\ open = "none"
    /\ consumed = <<>>
    /\ returned = <<>>
    /\ attrs \in SeqsUpTo(Attrs, MaxAttrs)
    /\ doc = NoDoc

CallFormatDoc ==
    /\ pc = "format_doc"
    /\ doc' = FormatDoc(attrs)
    /\ IF doc'.panicked THEN Fail("panicked", "format_doc")
       ELSE pc' = "returned" /\ fatal' = fatal
    /\ UNCHANGED <<ast, docs, idx, stdout, out, code, is_code, open, consumed,
                   returned, attrs>>

SpecDoc == InitDoc /\ [][CallFormatDoc]_vars

-----------------------------------------------------------------------------
(* The rendering of one declaration without doc comments, for every        *)
(* identifier of up to MaxIdent characters: the walk, then the print loop. *)

InitFmt ==
    /\ pc = "visit"
    /\ fatal = "none"
    /\ \E k \in {"fn", "mod"}, len \in 1..MaxIdent :
         ast = [Tree(1, <<0>>, <<k>>, <<(<<>>)>>) EXCEPT !.ident = <<Repeat("n", len)>>]
    /\ docs = <<>>
    /\ idx = 1
    /\ stdout = <<>>
    /\ out = <<>>
    /\ code = <<>>
    /\ is_code = FALSE
    /\ open = "none"
    /\ consumed = <<>>
    /\ returned = <<>>
    /\ attrs = <<>>
    /\ doc = NoDoc

NextFmt ==
    \/ Visit
    \/ BeginFormatMarkdown
    \/ Return
    \/ Exit

SpecFmt == InitFmt /\ [][NextFmt]_vars

-----------------------------------------------------------------------------
(* Claims about the Display of an item, checked under SpecFmt *)

\* What standard output holds before its first newline.
HeadingLine ==
    LET nl == {i \in 1..Len(stdout) : stdout[i] = NL} IN
    IF nl = {} THEN stdout
    ELSE SubSeq(stdout, 1, (CHOOSE i \in nl : \A j \in nl : i <= j) - 1)

\* The label of the heading line of the first item.
HeadingLabel ==
    IF ast.kind[1] = "mod" THEN <<"m", "o", "d", "u", "l", "e", " ">> \o ast.ident[1]
    ELSE <<"f", "u", "n", "c", "t", "i", "o", "n">>

Dashes(n) == [j \in 1..n |-> "-"]

\* s is the label between l and r dashes, l and r differing by at most one.
CenteredLabel(s) ==
    \E l, r \in 0..Len(s) :
        /\ l - r \in {-1, 0, 1}
        /\ s = Dashes(l) \o HeadingLabel \o Dashes(r)

Printed == pc \in {"render", "done"} /\ Len(returned) = 1

\* C11 (as claimed): the heading line is the label centred in exactly 80
\* columns, the fillers differing by at most one, for every identifier; it
\* is never wider than 80 columns.
C11_HeadingExactlyWidth ==
    Printed => Len(HeadingLine) = 80 /\ CenteredLabel(HeadingLine)

\* C11 (amended): for a label of at most 80 characters the heading line is
\* the label centred in exactly 80 columns, the fillers differing by at most
\* one; a longer label is the whole heading line, wider than 80 columns.
C11_HeadingAtLeastWidth ==
    Printed =>
        IF Len(HeadingLabel) <= 80
        THEN Len(HeadingLine) = 80 /\ CenteredLabel(HeadingLine)
        ELSE HeadingLine = HeadingLabel

\* `module ` and an identifier of 74 characters: a heading line of 81 columns.
C11_Witness ==
    /\ Printed
    /\ ast.kind[1] = "mod"
    /\ Len(ast.ident[1]) = 74
    /\ Len(HeadingLine) = 81

-----------------------------------------------------------------------------
(* Claims about the run and about format_markdown, checked under Spec *)

\* The members of a set of numbers, ascending.
Ascending(S) ==
    [k \in 1..Cardinality(S) |-> CHOOSE i \in S : Cardinality({j \in S : j < i}) = k - 1]

Fatal == pc \in {"error", "panicked"}

\* The blocks of the items whose rendering returned, in order.
PrintedBlocks ==
    Flatten([i \in 1..Len(returned) |-> DocFmt(docs[i], returned[i].out)])

\* C1 (as claimed): when the run ends in a fatal error, nothing has been
\* written to standard output.
C1_NothingWrittenOnFailure == Fatal => stdout = <<>>

\* C1 (amended): when the run ends in a fatal error, standard output holds
\* the complete blocks of the items rendered before the failing one and
\* nothing of the failing item or of a later one; it is empty when the
\* failure is a missing argument, an unreadable file, a parse failure or a
\* failure of the traversal.
C1_OnlyEarlierItemsWritten ==
    Fatal =>
        /\ stdout = PrintedBlocks
        /\ Len(returned) = idx - 1
        /\ fatal = "todo" => idx <= Len(docs)
        /\ fatal # "todo" => stdout = <<>>

\* The second item meets an unsupported construct after the first was printed.
C1_Witness ==
    /\ pc = "panicked"
    /\ fatal = "todo"
    /\ idx = 2
    /\ stdout = DocFmt(docs[1], returned[1].out)
    /\ stdout # <<>>

\* C2: at a paragraph boundary the blank-line separator goes to the code
\* buffer inside a code block and to the output buffer otherwise, so that a
\* paragraph ended outside a code block is followed by a blank line in out.
C2_ParagraphSeparatorRouted ==
    (pc = "markdown" /\ consumed # <<>> /\ Last(consumed) = EndEv("Paragraph")) =>
        IF is_code THEN IsSuffix(BlankLine, code) ELSE IsSuffix(BlankLine, out)

\* C3: the code buffer is non-empty only while the inside-code-block flag is
\* set, and it is empty when a code block starts.
C3_CodeOnlyInsideCodeBlock ==
    pc = "markdown" =>
        /\ ~is_code => code = <<>>
        /\ (consumed # <<>> /\ Last(consumed) = StartEv("CodeBlock", 0)) => code = <<>>

\* Paragraph text, headings and code blocks.
Supported(ev) ==
    \/ ev.kind = "Text"
    \/ ev.kind \in {"Start", "End"} /\ ev.tag \in {"Paragraph", "Heading", "CodeBlock"}

\* C4: a token of any other kind is fatal: it is the last token the run
\* takes, the item it belongs to is never returned or printed, no later item
\* is rendered, and no stream that was rendered to the end holds such a token.
C4_UnsupportedIsFatal ==
    /\ \A i \in 1..Len(consumed) :
         ~Supported(consumed[i]) =>
            /\ i = Len(consumed)
            /\ pc = "panicked"
            /\ fatal = "todo"
            /\ Len(returned) = idx - 1
            /\ idx <= Len(docs)
    /\ \A k \in 1..Len(returned) : \A i \in 1..Len(returned[k].stream) :
         Supported(returned[k].stream[i])

\* A soft break in the first of two items: the second is never rendered.
C4_Witness ==
    /\ pc = "panicked"
    /\ fatal = "todo"
    /\ consumed # <<>>
    /\ Last(consumed) = OtherEv("SoftBreak")
    /\ idx = 1
    /\ Len(docs) = 2
    /\ returned = <<>>

ResetAt(s) == Ascending({i \in 1..Len(s) : s[i] = RESET})
CodeBlockEndAt(stream) == Ascending({i \in 1..Len(stream) : stream[i] = EndEv("CodeBlock")})

\* For the token stream taken so far and the output built from it: as many
\* resets as code-block ends, and before the k-th reset, after the one before
\* it, a colour escape if the k-th code block had text.
OneResetPerCodeBlock(stream, s) ==
    /\ Len(ResetAt(s)) = Len(CodeBlockEndAt(stream))
    /\ \A k \in 1..Len(ResetAt(s)) :
         LET from == IF k = 1 THEN 0 ELSE ResetAt(s)[k - 1]
             e == CodeBlockEndAt(stream)[k]
         IN  stream[e - 1].kind = "Text" =>
                \E j \in (from + 1)..(ResetAt(s)[k] - 1) : s[j] \in {ESC_BG, ESC_FG}

\* C5: the output holds exactly one reset per code-block end processed; the
\* colour escapes of a code block with text come before its reset and after
\* the reset of the block before.
C5_OneResetPerCodeBlock ==
    /\ pc \in {"markdown", "panicked"} => OneResetPerCodeBlock(consumed, out)
    /\ \A k \in 1..Len(returned) :
         OneResetPerCodeBlock(returned[k].stream, returned[k].out)

C5_Witness ==
    /\ pc = "markdown"
    /\ consumed = <<StartEv("CodeBlock", 0), TextEv(<<"x", NL>>), EndEv("CodeBlock")>>
    /\ out = <<ESC_BG, ESC_FG, "x", NL, RESET, NL, NL>>

\* C10: a heading of level L with text T has just ended: out ends with a
\* blank line, L times '#', one space, T and a blank line.
C10_HeadingMarker ==
    \A i \in 1..Len(consumed) :
        (/\ pc = "markdown"
         /\ i + 2 = Len(consumed)
         /\ consumed[i].kind = "Start"
         /\ consumed[i].tag = "Heading"
         /\ consumed[i + 1].kind = "Text"
         /\ consumed[i + 2] = EndEv("Heading")) =>
            IsSuffix(BlankLine \o [j \in 1..consumed[i].level |-> "#"] \o <<" ">>
                        \o consumed[i + 1].text \o BlankLine,
                     out)

C10_Witness ==
    /\ pc = "markdown"
    /\ consumed = <<StartEv("Heading", 2), TextEv(<<"a">>), EndEv("Heading")>>
    /\ out = <<NL, NL, "#", "#", " ", "a", NL, NL>>

\* The contents of the text tokens of a stream, concatenated in order.
TextsOf(stream) ==
    LET ts == SelectSeq(stream, LAMBDA ev : ev.kind = "Text")
    IN  Flatten([i \in 1..Len(ts) |-> ts[i].text])

NoCodeBlock(stream) == \A i \in 1..Len(stream) : stream[i].tag # "CodeBlock"

NoEscape(s) == \A i \in 1..Len(s) : s[i] \notin {ESC_BG, ESC_FG, RESET}

\* sub occurs in s as a run of consecutive characters.
Occurs(sub, s) ==
    \E i \in 0..(Len(s) - Len(sub)) : SubSeq(s, i + 1, i + Len(sub)) = sub

SingleParagraph(stream) ==
    /\ Len(stream) >= 3
    /\ stream[1] = StartEv("Paragraph", 0)
    /\ stream[Len(stream)] = EndEv("Paragraph")
    /\ \A i \in 2..(Len(stream) - 1) : stream[i].kind = "Text"

\* The output of a token stream without a code block holds no escape, and
\* the text of a stream that is one paragraph occurs in it.
PlainOutput(stream, s) ==
    /\ NoCodeBlock(stream) => NoEscape(s)
    /\ SingleParagraph(stream) => Occurs(TextsOf(stream), s)

\* C13: when the token stream of a doc body holds no code block,
\* format_markdown's output holds neither a colour escape nor a reset, and
\* the text of a body that is a single paragraph appears in it verbatim.
C13_PlainTextVerbatim ==
    /\ pc = "markdown" => (NoCodeBlock(consumed) => NoEscape(out))
    /\ \A k \in 1..Len(returned) : PlainOutput(returned[k].stream, returned[k].out)

\* A body of one paragraph was rendered to the end.
C13_Witness ==
    /\ Len(returned) >= 1
    /\ returned[1].stream = <<StartEv("Paragraph", 0), TextEv(<<"a">>), EndEv("Paragraph")>>
    /\ returned[1].out = <<"a">>
    /\ IsSuffix(<<"a">> \o BlankLine, stdout)

\* The run is inside a call of format_markdown and takes the token ev.
Takes(ev) == pc = "markdown" /\ consumed' = Append(consumed, ev)

\* C15: within one call of format_markdown the inside-code-block flag starts
\* false, becomes true only on a code-block-start token, becomes false only
\* on a code-block-end token, is false when the token stream is exhausted,
\* and is never set to true while already true.
C15_FlagFollowsCodeBlocks ==
    [][/\ (pc # "markdown" /\ pc' = "markdown") => (consumed' = <<>> /\ ~is_code')
       /\ (pc = "markdown" /\ ~is_code /\ is_code') => Takes(StartEv("CodeBlock", 0))
       /\ (pc = "markdown" /\ is_code /\ ~is_code') => Takes(EndEv("CodeBlock"))
       /\ Takes(StartEv("CodeBlock", 0)) => (~is_code /\ is_code')
       /\ Takes(EndEv("CodeBlock")) => (is_code /\ ~is_code')
       /\ (pc = "markdown" /\ pc' = "render") => (~is_code /\ ~is_code')]_vars

\* A second code block has started after the first one ended.
C15_Witness ==
    /\ pc = "markdown"
    /\ consumed = <<StartEv("CodeBlock", 0), EndEv("CodeBlock"), StartEv("CodeBlock", 0)>>
    /\ is_code

\* The position of the last code-block start of a stream (0 if none).
LastCodeBlockStart(stream) ==
    LET at == {i \in 1..Len(stream) : stream[i] = StartEv("CodeBlock", 0)}
    IN  IF at = {} THEN 0 ELSE CHOOSE i \in at : \A j \in at : j <= i

\* C16: inside a code block the code buffer, which is what the highlighter
\* is handed at the block's end, is exactly the concatenation of the text
\* tokens received since that block's start.
C16_CodeBufferIsBlockText ==
    (pc = "markdown" /\ is_code) =>
        code = TextsOf(SubSeq(consumed, LastCodeBlockStart(consumed) + 1, Len(consumed)))

\* C17: at the start of rendering each item the inside-code-block flag is
\* false and both buffers are empty, whatever the previous item left, and
\* two items of the collection with the same token stream render to the
\* same text.
C17_StateScopedToItem ==
    /\ (pc = "markdown" /\ consumed = <<>>) =>
          (~is_code /\ out = <<>> /\ code = <<>>)
    /\ \A j, k \in 1..Len(returned) :
          returned[j].stream = returned[k].stream => returned[j].out = returned[k].out

\* The second item starts after a first item whose paragraph left its
\* separator in the code buffer.
C17_Witness ==
    /\ pc = "markdown"
    /\ idx = 2
    /\ consumed = <<>>
    /\ Len(returned) = 1
    /\ returned[1].stream # <<>>
    /\ Last(returned[1].stream) = EndEv("Paragraph")
    /\ code = <<>>

\* The letters of a string: its characters that belong to doc text, without
\* line ends, heading markers, spaces and escapes.
Letters(s) == SelectSeq(s, LAMBDA c : c \in {"a", "x"})

\* C18: no doc text is lost, duplicated or reordered: the letters of the
\* text tokens taken so far are, in the order of the stream, the letters of
\* the output followed by those still buffered for the open code block, and
\* the letters of a stream rendered to the end are those of its output.
C18_TextPreserved ==
    /\ pc = "markdown" => Letters(out) \o Letters(code) = Letters(TextsOf(consumed))
    /\ \A k \in 1..Len(returned) :
          Letters(returned[k].out) = Letters(TextsOf(returned[k].stream))

\* A paragraph and a code block with text, rendered to the end of the block.
C18_Witness ==
    /\ pc = "markdown"
    /\ consumed = <<StartEv("Paragraph", 0), TextEv(<<"a">>), EndEv("Paragraph"),
                    StartEv("CodeBlock", 0), TextEv(<<"x", NL>>), EndEv("CodeBlock")>>
    /\ Letters(out) = <<"a", "x">>

-----------------------------------------------------------------------------
(* Claims about format_doc, checked under SpecDoc *)

\* The literals format_doc meets: those of the outer attributes, in order.
OuterLiterals(as) ==
    Flatten([i \in 1..Len(as) |->
        IF as[i].style = "Outer"
        THEN SelectSeq(as[i].tokens, LAMBDA tk : tk.kind = "Literal")
        ELSE <<>>])

\* A literal without its first two characters and, if anything is left,
\* without its last one.
Stripped(lit) == IF Len(lit) > 3 THEN SubSeq(lit, 3, Len(lit) - 1) ELSE <<>>

\* C6: format_doc returns the concatenation, in attribute order, of one line
\* per literal: the literal without its first character, without the next
\* one and (if anything is left) without its last one, then a newline.  So
\* `///BC` gives the line "C" and `///` gives an empty line.
C6_FormatDocStrips ==
    pc # "format_doc" =>
        /\ pc = "returned" =>
              doc.doc = Flatten([i \in 1..Len(OuterLiterals(attrs)) |->
                                   Stripped(OuterLiterals(attrs)[i].text) \o <<NL>>])
        /\ attrs = <<AttrDocNoSpace>> => pc = "returned" /\ doc.doc = <<"C", NL>>
        /\ attrs = <<AttrDocEmpty>> => pc = "returned" /\ doc.doc = <<NL>>

C6_Witness ==
    /\ pc = "returned"
    /\ attrs = <<AttrDocNoSpace, AttrDocA>>
    /\ doc.doc = <<"C", NL, "A", NL>>

\* The lines of the outer doc-comment attributes only.
DocCommentLines(as) ==
    Flatten([i \in 1..Len(as) |->
        IF as[i].style = "Outer" /\ as[i].path = "doc"
        THEN Stripped(as[i].tokens[2].text) \o <<NL>>
        ELSE <<>>])

\* C7: the raw doc string is made only of the lines of the outer doc-comment
\* attributes: inner attributes and attributes that are not doc comments
\* contribute nothing.
C7_OnlyOuterDocComments ==
    pc = "returned" => doc.doc = DocCommentLines(attrs)

-----------------------------------------------------------------------------
(* Claims about the tree walker, checked under SpecWalk *)

Documented(t) == {i \in 1..t.n : t.kind[i] \in {"fn", "mod"}}

\* C8: for every parsed file the walker completes and returns a full
\* collection, whatever attributes the declarations carry.
C8_WalkerCompletes ==
    pc # "visit" =>
        /\ pc = "render"
        /\ fatal = "none"
        /\ Len(docs) = Cardinality(Documented(ast))

\* The declaration an item of the collection was made from.
NodeOf(d) ==
    CHOOSE i \in 1..ast.n :
        \/ d.variant = "FnDoc" /\ ast.kind[i] = "fn" /\ d.label = FormatSignature(Ident(i))
        \/ d.variant = "ModDoc" /\ ast.kind[i] = "mod" /\ d.label = Ident(i)

RECURSIVE IsAncestor(_, _, _)
\* a is i or a declaration i is nested in (fuel bounds the climb).
IsAncestor(a, i, fuel) ==
    IF i = a THEN TRUE
    ELSE IF i = 0 \/ fuel = 0 THEN FALSE
    ELSE IsAncestor(a, ast.parent[i], fuel - 1)

Within(a, i) == IsAncestor(a, i, ast.n)

\* C9: the walker appends one item per fn and per mod declaration, at any
\* depth, in depth-first pre-order: every item comes from a fn or mod
\* declaration, no declaration gives two items, a declaration's item comes
\* before the items of the declarations nested in it, the items of an earlier
\* sibling's subtree come before those of a later sibling's, and when the walk
\* returns every fn and mod declaration has its item.
C9_PreOrder ==
    pc # "visit" =>
        LET node == [k \in 1..Len(docs) |-> NodeOf(docs[k])] IN
        /\ \A k \in 1..Len(docs) :
             /\ node[k] \in Documented(ast)
             /\ docs[k].variant = (IF ast.kind[node[k]] = "fn" THEN "FnDoc" ELSE "ModDoc")
        /\ \A k, l \in 1..Len(docs) : k # l => node[k] # node[l]
        /\ \A k, l \in 1..Len(docs) :
             (node[k] # node[l] /\ Within(node[k], node[l])) => k < l
        /\ \A k, l \in 1..Len(docs) : \A x, y \in 1..ast.n :
             (/\ ast.parent[x] = ast.parent[y]
              /\ x < y
              /\ Within(x, node[k])
              /\ Within(y, node[l])) => k < l
        /\ pc = "render" => {node[k] : k \in 1..Len(docs)} = Documented(ast)

\* A mod holding a fn, followed by a sibling fn: all three have their item,
\* the nested fn between the two top-level declarations.
C9_Witness ==
    /\ pc = "render"
    /\ ast.n = 3
    /\ ast.parent = <<0, 1, 0>>
    /\ ast.kind = <<"mod", "fn", "fn">>
    /\ Len(docs) = 3
    /\ docs[2].label = FormatSignature(Ident(2))

====
